---- MODULE Spec2Model ----
(***************************************************************************)
(* A model of SimpleVector<Type> (src/simple_vector.h).                    *)
(*                                                                         *)
(* A vector is the record [data, size, capacity]:                          *)
(*   data     - the buffer owned through ArrayPtr<Type>; Len(data) is the  *)
(*              number of slots that were physically allocated,            *)
(*   size     - the field size_,                                           *)
(*   capacity - the field capacity_.                                       *)
(* Source indices are 0-based, sequences are 1-based: slot i of the source *)
(* is data[i + 1].                                                         *)
(*                                                                         *)
(* An access outside the allocated slots is undefined behaviour.  A read   *)
(* outside the buffer yields an indeterminate element (the parameter g of  *)
(* the operators); a write outside the buffer is not kept by the buffer    *)
(* and may overwrite a slot of the other vector's buffer (the parameter    *)
(* hit of the actions).                                                    *)
(***************************************************************************)
EXTENDS Integers, Sequences, FiniteSets, TLC

\* Bounds of the exploration.
MaxHeap == 4    \* the buffers of a and b together hold no more slots
MaxSize == 3    \* no size_ is larger
MaxVal == 1     \* elements are 0 .. MaxVal
MaxPush == 8    \* longest run of PushBack calls explored by SpecPush

Default == 0                 \* Type{} / Type()
Elem == 0 .. MaxVal
Vecs == {"a", "b"}
Other(x) == IF x = "a" THEN "b" ELSE "a"

VARIABLES vecs, last, copied
vars == <<vecs, last, copied>>

Max(m, n) == IF m > n THEN m ELSE n

\* ArrayPtr<Type>(n): n slots, each a default-constructed element.
NewArray(n) == [i \in 1 .. n |-> Default]

\* ArrayPtr<Type>(n) allocates nothing when n = 0; otherwise the allocation
\* succeeds (ok) or throws std::bad_alloc.
Allocates(n, ok) == n = 0 \/ ok

\* data_[i] read: the slot when it exists, an indeterminate element otherwise.
Load(data, i, g) == IF i < Len(data) THEN data[i + 1] ELSE g

\* data_[i] = val: kept when the slot exists.
Store(data, i, val) == IF i < Len(data) THEN [data EXCEPT ![i + 1] = val] ELSE data

\* The private members with their default member initialisers.
EmptyVector == [data |-> << >>, size |-> 0, capacity |-> 0]

GetSize(vec) == vec.size
GetCapacity(vec) == vec.capacity

\* The number of slots the owned buffer physically holds.
Slots(vec) == Len(vec.data)

\* Distinct from every element: what a position outside the buffer holds.
NoElem == Default - 1

\* size_ positions are live and the buffer holds fewer slots.
Torn(vec) == vec.size > Len(vec.data)

\* What begin()..end() iterates: the elements at positions 0 .. size_-1, where
\* a position outside the buffer has no element (NoElem).
Live(vec) == [i \in 1 .. vec.size |-> IF i <= Len(vec.data) THEN vec.data[i] ELSE NoElem]

\* The outcome of a call: the vector afterwards and the exception thrown.
Ok(vec) == [v |-> vec, ex |-> "none"]
Throw(vec, what) == [v |-> vec, ex |-> what]

----------------------------------------------------------------------------
\* Constructors.

\* SimpleVector(size_t size)
SizeCtor(n) ==
    [data |-> [i \in 1 .. n |-> Default], size |-> n, capacity |-> n]

\* SimpleVector(size_t size, const Type& value)
FillCtor(n, value) == [data |-> [i \in 1 .. n |-> value], size |-> n, capacity |-> n]

\* SimpleVector(std::initializer_list<Type>)
ListCtor(init_list) ==
    [data |-> init_list, size |-> Len(init_list), capacity |-> Len(init_list)]

\* SimpleVector(const SimpleVector& other): the buffer gets other.capacity_
\* slots, size_ is other.size_, capacity_ is not in the initialiser list and
\* keeps its default member initialiser 0; std::copy then copies other.size_
\* elements.
CopyCtor(other, g, ok) ==
    IF ~Allocates(other.capacity, ok) THEN Throw(EmptyVector, "bad_alloc")
    ELSE Ok([data |-> [i \in 1 .. other.capacity |->
                          IF i <= other.size THEN Load(other.data, i - 1, g)
                          ELSE NewArray(other.capacity)[i]],
             size |-> other.size,
             capacity |-> 0])

\* std::copy in the copy constructor writes other.size_ elements into
\* other.capacity_ slots.
CopyCtorOverflows(other) == other.size > other.capacity

\* What ArrayPtr's move constructor and move assignment leave in the source:
\* no storage.
Released == << >>

\* SimpleVector(SimpleVector&& other): the new vector takes the buffer, size_
\* and capacity_; other is left with size_ = 0 and capacity_ = 0.
MoveCtor(other) ==
    [this |-> [data |-> other.data, size |-> other.size, capacity |-> other.capacity],
     other |-> [data |-> Released, size |-> 0, capacity |-> 0]]


----------------------------------------------------------------------------
\* Member functions.

\* Reserve that swaps the new buffer in and leaves capacity_ as it was.
ReserveKeepsCapacity(vec, new_capacity, g, ok) ==
    IF new_capacity > vec.capacity
    THEN IF ~Allocates(new_capacity, ok) THEN Throw(vec, "bad_alloc")
         ELSE Ok([data |-> [i \in 1 .. new_capacity |->
                               IF i <= vec.size THEN Load(vec.data, i - 1, g)
                               ELSE NewArray(new_capacity)[i]],
                  size |-> vec.size,
                  capacity |-> vec.capacity])
    ELSE Ok(vec)

\* Reserve with capacity_ assigned before the buffer is allocated.
ReserveCapacityFirst(vec, new_capacity, g, ok) ==
    IF new_capacity > vec.capacity
    THEN IF ~Allocates(new_capacity, ok)
         THEN Throw([vec EXCEPT !.capacity = new_capacity], "bad_alloc")
         ELSE Ok([data |-> [i \in 1 .. new_capacity |->
                               IF i <= vec.size THEN Load(vec.data, i - 1, g)
                               ELSE NewArray(new_capacity)[i]],
                  size |-> vec.size,
                  capacity |-> new_capacity])
    ELSE Ok(vec)

\* void Reserve(size_t new_capacity)
Reserve(vec, new_capacity, g, ok) ==
    IF new_capacity > vec.capacity
    THEN IF ~Allocates(new_capacity, ok) THEN Throw(vec, "bad_alloc")
         ELSE Ok([data |-> [i \in 1 .. new_capacity |->
                               IF i <= vec.size THEN Load(vec.data, i - 1, g)
                               ELSE NewArray(new_capacity)[i]],
                  size |-> vec.size,
                  capacity |-> new_capacity])
    ELSE Ok(vec)

\* std::move in Reserve writes size_ elements into new_capacity slots.
ReserveOverflows(vec, new_capacity) ==
    new_capacity > vec.capacity /\ vec.size > new_capacity

\* SimpleVector(ReserveProxy)
ReserveCtor(n) == Reserve(EmptyVector, n, Default, TRUE).v

\* Growth by one slot instead of doubling.
GrownByOne(capacity) == capacity + 1

\* capacity_ == 0 ? 1 : capacity_ * 2
Grown(capacity) == IF capacity = 0 THEN 1 ELSE capacity * 2

\* PushBack(const Type&) whose new buffer does not receive the old elements.
PushBackFreshBuffer(vec, item, g, ok) ==
    IF vec.size = vec.capacity
    THEN IF ~Allocates(Grown(vec.capacity), ok) THEN Throw(vec, "bad_alloc")
         ELSE Ok([data |-> Store(NewArray(Grown(vec.capacity)), vec.size, item),
                  size |-> vec.size + 1,
                  capacity |-> Grown(vec.capacity)])
    ELSE Ok([vec EXCEPT !.data = Store(vec.data, vec.size, item),
                        !.size = vec.size + 1])

\* void PushBack(const Type& item): grows through a buffer of its own.
PushBack(vec, item, g, ok) ==
    IF vec.size = vec.capacity
    THEN IF ~Allocates(Grown(vec.capacity), ok) THEN Throw(vec, "bad_alloc")
         ELSE LET new_data == [i \in 1 .. Grown(vec.capacity) |->
                                  IF i <= vec.size THEN Load(vec.data, i - 1, g)
                                  ELSE NewArray(Grown(vec.capacity))[i]]
              IN Ok([data |-> Store(new_data, vec.size, item),
                     size |-> vec.size + 1,
                     capacity |-> Grown(vec.capacity)])
    ELSE Ok([vec EXCEPT !.data = Store(vec.data, vec.size, item),
                        !.size = vec.size + 1])

\* void PushBack(Type&& item): grows through Reserve.
PushBackMove(vec, item, g, ok) ==
    LET r == IF vec.size = vec.capacity
             THEN Reserve(vec, Grown(vec.capacity), g, ok)
             ELSE Ok(vec)
    IN IF r.ex # "none" THEN r
       ELSE Ok([r.v EXCEPT !.data = Store(r.v.data, r.v.size, item),
                           !.size = r.v.size + 1])

\* if (size_ == capacity_): PushBack takes the branch that allocates.
PushBackGrows(vec) == vec.size = vec.capacity

\* data_[size_++] = item lands outside the buffer.
PushBackOverflows(vec) == vec.size # vec.capacity /\ vec.size >= Len(vec.data)

\* Clear that also gives up the capacity.
ClearForgetsCapacity(vec) == [vec EXCEPT !.size = 0, !.capacity = 0]

\* void Clear()
Clear(vec) == [vec EXCEPT !.size = 0]

\* void PopBack(), called with size_ > 0
PopBack(vec) == [vec EXCEPT !.size = vec.size - 1]

\* Iterator Insert(ConstIterator pos, const Type& value), pos = begin() + offset
Insert(vec, offset, value, g, ok) ==
    LET r == IF vec.size = vec.capacity
             THEN Reserve(vec, Grown(vec.capacity), g, ok)
             ELSE Ok(vec)
    IN IF r.ex # "none" THEN r
       ELSE LET d == r.v.data
                n == r.v.size
                \* std::move_backward(begin() + offset, end(), end() + 1)
                shifted == [i \in 1 .. Len(d) |->
                               IF i - 1 > offset /\ i - 1 <= n
                               THEN Load(d, i - 2, g) ELSE d[i]]
            IN Ok([r.v EXCEPT !.data = Store(shifted, offset, value),
                              !.size = n + 1])

\* Iterator Insert(ConstIterator pos, Type&& value), pos = begin() + offset
InsertMove(vec, offset, value, g, ok) ==
    LET r == IF vec.size = vec.capacity
             THEN Reserve(vec, Grown(vec.capacity), g, ok)
             ELSE Ok(vec)
    IN IF r.ex # "none" THEN r
       ELSE LET d == r.v.data
                n == r.v.size
                shifted == [i \in 1 .. Len(d) |->
                               IF i - 1 > offset /\ i - 1 <= n
                               THEN Load(d, i - 2, g) ELSE d[i]]
            IN Ok([r.v EXCEPT !.data = Store(shifted, offset, value),
                              !.size = n + 1])

\* Insert writes slot size_ (the end of the shift, or the gap when pos is
\* end()), which no growth has made room for.
InsertOverflows(vec) == vec.size # vec.capacity /\ vec.size >= Len(vec.data)

\* Iterator Erase(ConstIterator pos), pos = begin() + offset, offset < size_
Erase(vec, offset, g) ==
    LET d == vec.data
        n == vec.size
        \* std::move(begin() + offset + 1, end(), begin() + offset)
        shifted == [i \in 1 .. Len(d) |->
                       IF i - 1 >= offset /\ i - 1 <= n - 2
                       THEN Load(d, i, g) ELSE d[i]]
    IN [vec EXCEPT !.data = shifted, !.size = n - 1]

\* The shift in Erase writes slots offset .. size_-2.
EraseOverflows(vec, offset) == offset <= vec.size - 2 /\ vec.size - 2 >= Len(vec.data)

\* Resize that reserves new_size slots and no more.
ResizeExact(vec, new_size, g, ok) ==
    IF new_size <= vec.size THEN Ok([vec EXCEPT !.size = new_size])
    ELSE LET r == IF new_size > vec.capacity
                  THEN Reserve(vec, new_size, g, ok)
                  ELSE Ok(vec)
         IN IF r.ex # "none" THEN r
            ELSE Ok([r.v EXCEPT
                       !.data = [i \in 1 .. Len(r.v.data) |->
                                    IF i - 1 >= vec.size /\ i - 1 < new_size
                                    THEN Default ELSE r.v.data[i]],
                       !.size = new_size])

\* void Resize(size_t new_size)
Resize(vec, new_size, g, ok) ==
    IF new_size <= vec.size THEN Ok([vec EXCEPT !.size = new_size])
    ELSE LET r == IF new_size > vec.capacity
                  THEN Reserve(vec, Max(new_size, vec.capacity * 2), g, ok)
                  ELSE Ok(vec)
         IN IF r.ex # "none" THEN r
            ELSE Ok([r.v EXCEPT
                       !.data = [i \in 1 .. Len(r.v.data) |->
                                    IF i - 1 >= vec.size /\ i - 1 < new_size
                                    THEN Default ELSE r.v.data[i]],
                       !.size = new_size])

\* Type& At(size_t index): the exception thrown and the element referred to.
At(vec, index, g) ==
    IF index >= vec.size THEN [ex |-> "out_of_range", val |-> NoElem]
    ELSE [ex |-> "none", val |-> Load(vec.data, index, g)]

\* operator[](index) = val, called with index < size_
Subscript(vec, index, val) == [vec EXCEPT !.data = Store(vec.data, index, val)]

\* operator= (const SimpleVector& rhs), this # &rhs: SimpleVector temp(rhs);
\* swap(temp); temp takes the old members and is destroyed.
CopyAssign(this, rhs, g, ok) ==
    LET temp == CopyCtor(rhs, g, ok)
    IN IF temp.ex # "none" THEN Throw(this, temp.ex) ELSE Ok(temp.v)

\* Move assignment that does not reset rhs.size_.
MoveAssignKeepsSize(this, rhs) ==
    [this |-> [data |-> rhs.data, size |-> rhs.size, capacity |-> rhs.capacity],
     rhs |-> [data |-> Released, size |-> rhs.size, capacity |-> 0]]

\* operator= (SimpleVector&& rhs), this # &rhs
MoveAssign(this, rhs) ==
    [this |-> [data |-> rhs.data, size |-> rhs.size, capacity |-> rhs.capacity],
     rhs |-> [data |-> Released, size |-> 0, capacity |-> 0]]

\* void swap(SimpleVector& other)
swap(this, other) ==
    [this |-> [data |-> other.data, size |-> other.size, capacity |-> other.capacity],
     other |-> [data |-> this.data, size |-> this.size, capacity |-> this.capacity]]

----------------------------------------------------------------------------
\* Comparison operators.  g1 and g2 are the indeterminate elements read
\* outside the buffers of lhs and rhs.

\* bool operator==(lhs, rhs): rhs is read only when the sizes agree.
OperatorEq(lhs, rhs, g1, g2) ==
    /\ GetSize(lhs) = GetSize(rhs)
    /\ \A i \in 0 .. lhs.size - 1 : Load(lhs.data, i, g1) = Load(rhs.data, i, g2)

\* bool operator!=(lhs, rhs)
OperatorNe(lhs, rhs, g1, g2) == ~OperatorEq(lhs, rhs, g1, g2)

\* std::lexicographical_compare(lhs.begin(), lhs.end(), rhs.begin(),
\* rhs.end()) from position i on.
RECURSIVE LexicographicalCompare(_, _, _, _, _)
LexicographicalCompare(lhs, rhs, i, g1, g2) ==
    IF i >= lhs.size \/ i >= rhs.size THEN i >= lhs.size /\ i < rhs.size
    ELSE IF Load(lhs.data, i, g1) < Load(rhs.data, i, g2) THEN TRUE
    ELSE IF Load(rhs.data, i, g2) < Load(lhs.data, i, g1) THEN FALSE
    ELSE LexicographicalCompare(lhs, rhs, i + 1, g1, g2)

\* bool operator<(lhs, rhs)
OperatorLt(lhs, rhs, g1, g2) == LexicographicalCompare(lhs, rhs, 0, g1, g2)

\* bool operator<=(lhs, rhs)
OperatorLe(lhs, rhs, g1, g2) == ~OperatorLt(rhs, lhs, g2, g1)

\* bool operator>(lhs, rhs)
OperatorGt(lhs, rhs, g1, g2) == OperatorLt(rhs, lhs, g2, g1)

\* bool operator>=(lhs, rhs)
OperatorGe(lhs, rhs, g1, g2) == ~OperatorLt(lhs, rhs, g1, g2)

----------------------------------------------------------------------------
\* The program: two vector objects a and b, and the record of the last call.

\* The last call: its name, the object it was called on, its numeric argument
\* (index, offset, size or capacity), the element passed, the exception it
\* threw and what it returned (an element for At, an offset for Insert/Erase);
\* src is the vector it copied, moved or swapped with.
Rec(op, x, k, item, ex, ret) ==
    [op |-> op, v |-> x, src |-> x, k |-> k, item |-> item, ex |-> ex, ret |-> ret]

\* A call that threw: the record keeps the call's name, object and exception.
Outcome(rec, ex) ==
    IF ex = "bad_alloc"
    THEN [rec EXCEPT !.k = 0, !.item = Default, !.ex = ex, !.ret = 0]
    ELSE [rec EXCEPT !.ex = ex]

\* The last call when it took another vector y (x itself on self-assignment).
Rec2(op, x, y, ex) ==
    [op |-> op, v |-> x, src |-> y, k |-> 0, item |-> Default, ex |-> ex, ret |-> 0]

\* The exploration keeps the buffers within MaxHeap slots and the sizes within
\* MaxSize: x may become vec while the other vector stays as it is.
Bounded(x, vec) ==
    /\ Len(vec.data) + Len(vecs[Other(x)].data) <= MaxHeap
    /\ vec.size <= MaxSize

\* The indeterminate elements to consider: all when the call reads or writes
\* outside a buffer, one otherwise.
Indet(outside) == IF outside THEN Elem ELSE {Default}

\* Where a write outside the buffer lands: 0 for memory no vector owns, s > 0
\* for slot s - 1 of the other vector's buffer.
Hits(overflow) == IF overflow THEN 0 .. MaxHeap ELSE {0}

\* The objects after a call on x that left it as vec, with the write outside
\* its buffer, if any, landing at hit with the element g.
Update(x, vec, hit, g) ==
    [y \in Vecs |->
        IF y = x THEN vec
        ELSE IF hit > 0 /\ hit <= Len(vecs[y].data)
             THEN [vecs[y] EXCEPT !.data[hit] = g]
             ELSE vecs[y]]

\* The calls that copy one vector into another, and the calls on one vector
\* that change its size, capacity or elements in place.
CopyCalls == {"SimpleVector(copy)", "operator="}
MutatingCalls == {"PushBack", "PushBack(move)", "Insert", "Insert(move)", "Erase",
                  "PopBack", "Clear", "Resize", "Reserve", "operator[]"}

\* copied: one of a, b was made a copy of the other (copy construction or
\* copy assignment), and every call since was one of MutatingCalls or At.
\* A call that throws and a self-assignment leave it as it is.
Track ==
    copied' = IF last'.ex = "bad_alloc" THEN copied
              ELSE IF last'.op \in CopyCalls THEN (last'.v # last'.src \/ copied)
              ELSE IF last'.op \in MutatingCalls \cup {"At"} THEN copied
              ELSE FALSE

\* No call is being looked at.
Idle == Rec("idle", "a", 0, Default, "none", 0)

Init ==
    /\ vecs = [x \in Vecs |-> EmptyVector]
    /\ last = Idle
    /\ copied = FALSE

\* x is destroyed and constructed anew: SimpleVector x;
CallDefaultCtor(x) ==
    /\ last = Idle
    /\ vecs' = [vecs EXCEPT ![x] = EmptyVector]
    /\ last' = Rec("SimpleVector", x, 0, Default, "none", 0)
    /\ Track

\* x is destroyed and constructed anew as vec.  (A constructor whose
\* allocation throws constructs no vector; the calls below are those that
\* return.)
Construct(x, vec) ==
    /\ Bounded(x, vec)
    /\ vecs' = [vecs EXCEPT ![x] = vec]

\* SimpleVector x(n);
CallSizeCtor(x, n) ==
    /\ last = Idle
    /\ Construct(x, SizeCtor(n))
    /\ last' = Rec("SimpleVector(size)", x, n, Default, "none", 0)
    /\ Track

\* SimpleVector x(n, value);
CallFillCtor(x, n, value) ==
    /\ last = Idle
    /\ Construct(x, FillCtor(n, value))
    /\ last' = Rec("SimpleVector(size, value)", x, n, value, "none", 0)
    /\ Track

\* SimpleVector x{...};
CallListCtor(x, init_list) ==
    /\ last = Idle
    /\ Construct(x, ListCtor(init_list))
    /\ last' = Rec("SimpleVector(list)", x, Len(init_list), Default, "none", 0)
    /\ Track

\* SimpleVector x(Reserve(n));
CallReserveCtor(x, n) ==
    /\ last = Idle
    /\ Construct(x, ReserveCtor(n))
    /\ last' = Rec("SimpleVector(ReserveProxy)", x, n, Default, "none", 0)
    /\ Track

\* SimpleVector x(y);
CallCopyCtor(x, y) ==
    /\ last = Idle
    /\ x # y
    /\ \E g \in Indet(Torn(vecs[y]) \/ CopyCtorOverflows(vecs[y])) :
       \E hit \in Hits(CopyCtorOverflows(vecs[y])) :
          LET r == CopyCtor(vecs[y], g, TRUE)
          IN /\ Bounded(x, r.v)
             /\ vecs' = IF r.ex = "none" THEN Update(x, r.v, hit, g) ELSE vecs
             /\ last' = Rec2("SimpleVector(copy)", x, y, "none")
    /\ Track

\* SimpleVector x(std::move(y));
CallMoveCtor(x, y) ==
    /\ last = Idle
    /\ x # y
    /\ LET r == MoveCtor(vecs[y])
       IN /\ r.this.size <= MaxSize
          /\ vecs' = [vecs EXCEPT ![x] = r.this, ![y] = r.other]
    /\ last' = Rec2("SimpleVector(move)", x, y, "none")
    /\ Track

\* x = y;
CallCopyAssign(x, y) ==
    /\ last = Idle
    /\ IF x = y THEN UNCHANGED vecs /\ last' = Rec2("operator=", x, y, "none")
       ELSE \E ok \in BOOLEAN :
            \E g \in Indet(Torn(vecs[y]) \/ CopyCtorOverflows(vecs[y])) :
            \E hit \in Hits(CopyCtorOverflows(vecs[y])) :
               LET r == CopyAssign(vecs[x], vecs[y], g, ok)
               IN /\ ok \/ r.ex # "none"
                  /\ Bounded(x, r.v)
                  /\ vecs' = IF r.ex = "none" THEN Update(x, r.v, hit, g) ELSE vecs
                  /\ last' = Rec2("operator=", x, y, r.ex)
    /\ Track

\* x = std::move(y);
CallMoveAssign(x, y) ==
    /\ last = Idle
    /\ IF x = y THEN UNCHANGED vecs
       ELSE LET r == MoveAssign(vecs[x], vecs[y])
            IN /\ r.this.size <= MaxSize
               /\ vecs' = [vecs EXCEPT ![x] = r.this, ![y] = r.rhs]
    /\ last' = Rec2("operator=(move)", x, y, "none")
    /\ Track

\* x.swap(y);
Callswap(x, y) ==
    /\ last = Idle
    /\ IF x = y THEN UNCHANGED vecs
       ELSE LET r == swap(vecs[x], vecs[y])
            IN /\ r.this.size <= MaxSize /\ r.other.size <= MaxSize
               /\ vecs' = [vecs EXCEPT ![x] = r.this, ![y] = r.other]
    /\ last' = Rec2("swap", x, y, "none")
    /\ Track

\* x.Reserve(n);
CallReserve(x, n) ==
    /\ last = Idle
    /\ \E ok \in BOOLEAN :
       \E g \in Indet(Torn(vecs[x]) \/ ReserveOverflows(vecs[x], n)) :
       \E hit \in Hits(ReserveOverflows(vecs[x], n)) :
           LET r == Reserve(vecs[x], n, g, ok)
           IN /\ ok \/ r.ex # "none"
              /\ Bounded(x, r.v)
              /\ vecs' = IF r.ex = "none" THEN Update(x, r.v, hit, g) ELSE vecs
              /\ last' = Outcome(Rec("Reserve", x, n, Default, "none", 0), r.ex)
    /\ Track

\* x.Resize(n);
CallResize(x, n) ==
    /\ last = Idle
    /\ \E ok \in BOOLEAN :
       \E g \in Indet(Torn(vecs[x])) :
           LET r == Resize(vecs[x], n, g, ok)
           IN /\ ok \/ r.ex # "none"
              /\ Bounded(x, r.v)
              /\ vecs' = [vecs EXCEPT ![x] = r.v]
              /\ last' = Outcome(Rec("Resize", x, n, Default, "none", 0), r.ex)
    /\ Track

\* x.PushBack(item); with item an lvalue
CallPushBack(x, item) ==
    /\ last = Idle
    /\ \E ok \in BOOLEAN :
       \E g \in Indet(PushBackOverflows(vecs[x])) :
       \E hit \in Hits(PushBackOverflows(vecs[x])) :
           LET r == PushBack(vecs[x], item, g, ok)
           IN /\ ok \/ r.ex # "none"
              /\ Bounded(x, r.v)
              /\ vecs' = IF r.ex = "none" THEN Update(x, r.v, hit, g) ELSE vecs
              /\ last' = Outcome(Rec("PushBack", x, 0, item, "none", 0), r.ex)
    /\ Track

\* x.PushBack(std::move(item));
CallPushBackMove(x, item) ==
    /\ last = Idle
    /\ \E ok \in BOOLEAN :
       \E g \in Indet(PushBackOverflows(vecs[x])) :
       \E hit \in Hits(PushBackOverflows(vecs[x])) :
           LET r == PushBackMove(vecs[x], item, g, ok)
           IN /\ ok \/ r.ex # "none"
              /\ Bounded(x, r.v)
              /\ vecs' = IF r.ex = "none" THEN Update(x, r.v, hit, g) ELSE vecs
              /\ last' = Outcome(Rec("PushBack(move)", x, 0, item, "none", 0), r.ex)
    /\ Track

\* x.Insert(x.begin() + offset, value); with value an lvalue
CallInsert(x, offset, value) ==
    /\ last = Idle
    /\ offset <= vecs[x].size
    /\ \E ok \in BOOLEAN :
       \E g \in Indet(Torn(vecs[x]) \/ InsertOverflows(vecs[x])) :
       \E hit \in Hits(InsertOverflows(vecs[x])) :
          LET r == Insert(vecs[x], offset, value, g, ok)
          IN /\ ok \/ r.ex # "none"
             /\ Bounded(x, r.v)
             /\ vecs' = IF r.ex = "none" THEN Update(x, r.v, hit, g) ELSE vecs
             /\ last' = Outcome(Rec("Insert", x, offset, value, "none", offset), r.ex)
    /\ Track

\* x.Insert(x.begin() + offset, std::move(value));
CallInsertMove(x, offset, value) ==
    /\ last = Idle
    /\ offset <= vecs[x].size
    /\ \E ok \in BOOLEAN :
       \E g \in Indet(Torn(vecs[x]) \/ InsertOverflows(vecs[x])) :
       \E hit \in Hits(InsertOverflows(vecs[x])) :
          LET r == InsertMove(vecs[x], offset, value, g, ok)
          IN /\ ok \/ r.ex # "none"
             /\ Bounded(x, r.v)
             /\ vecs' = IF r.ex = "none" THEN Update(x, r.v, hit, g) ELSE vecs
             /\ last' = Outcome(Rec("Insert(move)", x, offset, value, "none", offset), r.ex)
    /\ Track

\* x.Erase(x.begin() + offset);
CallErase(x, offset) ==
    /\ last = Idle
    /\ offset < vecs[x].size
    /\ \E g \in Indet(Torn(vecs[x]) \/ EraseOverflows(vecs[x], offset)) :
       \E hit \in Hits(EraseOverflows(vecs[x], offset)) :
          /\ vecs' = Update(x, Erase(vecs[x], offset, g), hit, g)
          /\ last' = Rec("Erase", x, offset, Default, "none", offset)
    /\ Track

\* x.PopBack();
CallPopBack(x) ==
    /\ last = Idle
    /\ vecs[x].size > 0
    /\ vecs' = [vecs EXCEPT ![x] = PopBack(vecs[x])]
    /\ last' = Rec("PopBack", x, 0, Default, "none", 0)
    /\ Track

\* x.Clear();
CallClear(x) ==
    /\ last = Idle
    /\ vecs' = [vecs EXCEPT ![x] = Clear(vecs[x])]
    /\ last' = Rec("Clear", x, 0, Default, "none", 0)
    /\ Track

\* x.At(index);
CallAt(x, index) ==
    /\ last = Idle
    /\ \E g \in Indet(Torn(vecs[x])) :
           LET r == At(vecs[x], index, g)
           IN /\ UNCHANGED vecs
              /\ last' = Rec("At", x, index, Default, r.ex, r.val)
    /\ Track

\* x[index] = val;
CallSubscript(x, index, val) ==
    /\ last = Idle
    /\ index < vecs[x].size
    /\ \E hit \in Hits(index >= Len(vecs[x].data)) :
          /\ vecs' = Update(x, Subscript(vecs[x], index, val), hit, val)
          /\ last' = Rec("operator[]", x, index, val, "none", 0)
    /\ Track

\* The record of a comparison of x with y: ret is 1 for true and 0 for false.
Compared(op, x, y, result) ==
    [Rec2(op, x, y, "none") EXCEPT !.ret = IF result THEN 1 ELSE 0]

\* x == y
CallOperatorEq(x, y) ==
    /\ last = Idle
    /\ \E g1 \in Indet(Torn(vecs[x])), g2 \in Indet(Torn(vecs[y])) :
          last' = Compared("operator==", x, y, OperatorEq(vecs[x], vecs[y], g1, g2))
    /\ UNCHANGED <<vecs, copied>>

\* x != y
CallOperatorNe(x, y) ==
    /\ last = Idle
    /\ \E g1 \in Indet(Torn(vecs[x])), g2 \in Indet(Torn(vecs[y])) :
          last' = Compared("operator!=", x, y, OperatorNe(vecs[x], vecs[y], g1, g2))
    /\ UNCHANGED <<vecs, copied>>

\* x < y
CallOperatorLt(x, y) ==
    /\ last = Idle
    /\ \E g1 \in Indet(Torn(vecs[x])), g2 \in Indet(Torn(vecs[y])) :
          last' = Compared("operator<", x, y, OperatorLt(vecs[x], vecs[y], g1, g2))
    /\ UNCHANGED <<vecs, copied>>

\* x <= y
CallOperatorLe(x, y) ==
    /\ last = Idle
    /\ \E g1 \in Indet(Torn(vecs[x])), g2 \in Indet(Torn(vecs[y])) :
          last' = Compared("operator<=", x, y, OperatorLe(vecs[x], vecs[y], g1, g2))
    /\ UNCHANGED <<vecs, copied>>

\* x > y
CallOperatorGt(x, y) ==
    /\ last = Idle
    /\ \E g1 \in Indet(Torn(vecs[x])), g2 \in Indet(Torn(vecs[y])) :
          last' = Compared("operator>", x, y, OperatorGt(vecs[x], vecs[y], g1, g2))
    /\ UNCHANGED <<vecs, copied>>

\* x >= y
CallOperatorGe(x, y) ==
    /\ last = Idle
    /\ \E g1 \in Indet(Torn(vecs[x])), g2 \in Indet(Torn(vecs[y])) :
          last' = Compared("operator>=", x, y, OperatorGe(vecs[x], vecs[y], g1, g2))
    /\ UNCHANGED <<vecs, copied>>

\* The constructor or member-function call recorded by rec, made on vec (and
\* copying other), reads or writes a slot that the buffer it accesses does
\* not hold.
AccessesOutside(rec, vec, other) ==
    CASE rec.op \in {"PushBack", "PushBack(move)"} ->
             PushBackOverflows(vec) \/ (PushBackGrows(vec) /\ Torn(vec))
      [] rec.op \in {"Insert", "Insert(move)"} ->
             InsertOverflows(vec) \/ (vec.size = vec.capacity /\ Torn(vec))
      [] rec.op = "Erase" ->
             EraseOverflows(vec, rec.k) \/ (rec.k <= vec.size - 2 /\ Torn(vec))
      [] rec.op = "Reserve" ->
             rec.k > vec.capacity /\ (Torn(vec) \/ ReserveOverflows(vec, rec.k))
      [] rec.op = "Resize" ->
             /\ rec.k > vec.size
             /\ IF rec.k > vec.capacity THEN Torn(vec) ELSE rec.k > Slots(vec)
      [] rec.op \in {"At", "operator[]"} -> rec.k >= Slots(vec)
      [] rec.op \in CopyCalls ->
             rec.v # rec.src /\ (Torn(other) \/ CopyCtorOverflows(other))
      [] OTHER -> FALSE

Lists == UNION {[1 .. n -> Elem] : n \in 0 .. MaxHeap}

\* The caller is done with the outcome of the last call.
Return ==
    /\ last # Idle
    /\ last' = Idle
    /\ UNCHANGED <<vecs, copied>>

\* The caller makes one call at a time and looks at its outcome before the
\* next.
Next ==
    \/ Return
    \/ \E x \in Vecs :
           \/ CallDefaultCtor(x)
           \/ \E n \in 0 .. MaxHeap : CallSizeCtor(x, n)
           \/ \E n \in 0 .. MaxHeap, value \in Elem : CallFillCtor(x, n, value)
           \/ \E init_list \in Lists : CallListCtor(x, init_list)
           \/ \E n \in 0 .. MaxHeap : CallReserveCtor(x, n)
           \/ \E y \in Vecs : CallCopyCtor(x, y)
           \/ \E y \in Vecs : CallMoveCtor(x, y)
           \/ \E y \in Vecs : CallCopyAssign(x, y)
           \/ \E y \in Vecs : CallMoveAssign(x, y)
           \/ \E y \in Vecs : Callswap(x, y)
           \/ \E n \in 0 .. MaxHeap : CallReserve(x, n)
           \/ \E n \in 0 .. MaxHeap : CallResize(x, n)
           \/ \E item \in Elem : CallPushBack(x, item)
           \/ \E item \in Elem : CallPushBackMove(x, item)
           \/ \E offset \in 0 .. MaxHeap, value \in Elem : CallInsert(x, offset, value)
           \/ \E offset \in 0 .. MaxHeap, value \in Elem : CallInsertMove(x, offset, value)
           \/ \E offset \in 0 .. MaxHeap : CallErase(x, offset)
           \/ CallPopBack(x)
           \/ CallClear(x)
           \/ \E index \in 0 .. MaxHeap : CallAt(x, index)
           \/ \E index \in 0 .. MaxHeap, val \in Elem : CallSubscript(x, index, val)
           \/ \E y \in Vecs : CallOperatorEq(x, y)
           \/ \E y \in Vecs : CallOperatorNe(x, y)
           \/ \E y \in Vecs : CallOperatorLt(x, y)
           \/ \E y \in Vecs : CallOperatorLe(x, y)
           \/ \E y \in Vecs : CallOperatorGt(x, y)
           \/ \E y \in Vecs : CallOperatorGe(x, y)

Spec == Init /\ [][Next]_vars

----------------------------------------------------------------------------
\* A default-constructed vector a on which only PushBack is called.  Here the
\* calls follow one another directly and last.k counts the calls that
\* returned; a call that throws leaves the count as it is.

\* a.PushBack(item); with item an lvalue
PushOnly(item) ==
    \E ok \in BOOLEAN :
        LET r == PushBack(vecs["a"], item, Default, ok)
        IN /\ ok \/ r.ex # "none"
           /\ r.v.size <= MaxPush
           /\ vecs' = [vecs EXCEPT !["a"] = r.v]
           /\ last' = IF r.ex = "none"
                      THEN Rec("PushBack", "a", last.k + 1, item, "none", 0)
                      ELSE [last EXCEPT !.ex = r.ex]
           /\ UNCHANGED copied

\* a.PushBack(std::move(item));
PushOnlyMove(item) ==
    \E ok \in BOOLEAN :
        LET r == PushBackMove(vecs["a"], item, Default, ok)
        IN /\ ok \/ r.ex # "none"
           /\ r.v.size <= MaxPush
           /\ vecs' = [vecs EXCEPT !["a"] = r.v]
           /\ last' = IF r.ex = "none"
                      THEN Rec("PushBack(move)", "a", last.k + 1, item, "none", 0)
                      ELSE [last EXCEPT !.ex = r.ex]
           /\ UNCHANGED copied

NextPush ==
    \/ \E item \in Elem : PushOnly(item)
    \/ \E item \in Elem : PushOnlyMove(item)

SpecPush == Init /\ [][NextPush]_vars

----------------------------------------------------------------------------
\* The reserve-then-fill scenario on vector a: an empty vector, Reserve(c),
\* up to c PushBack calls, Resize(m) below the size, Resize(m) once more.
\* Here last records the scenario so far: the last call, the reservation c,
\* the capacity cap seen after it, the values pushed, the size m resized to,
\* the exception thrown, whether a PushBack took the allocating branch
\* (realloc) and whether the repeated Resize left the vector as it was (same).

\* The empty vectors to start from: default-constructed, cleared after
\* SimpleVector(n, value), and a copy of such a cleared vector.
EmptyVectors ==
    {EmptyVector}
    \cup {Clear(FillCtor(n, value)) : n \in 1 .. MaxSize, value \in Elem}
    \cup {CopyCtor(Clear(FillCtor(n, value)), Default, TRUE).v :
              n \in 1 .. MaxSize, value \in Elem}

InitFill ==
    /\ vecs \in {[x \in Vecs |-> IF x = "a" THEN vec ELSE EmptyVector] : vec \in EmptyVectors}
    /\ last = [op |-> "SimpleVector", c |-> 0, cap |-> 0, pushed |-> << >>, m |-> 0,
               ex |-> "none", realloc |-> FALSE, same |-> TRUE]
    /\ copied = FALSE

\* a.Reserve(c);
FillReserve(c) ==
    /\ last.op = "SimpleVector"
    /\ \E ok \in BOOLEAN :
          LET r == Reserve(vecs["a"], c, Default, ok)
          IN /\ ok \/ r.ex # "none"
             /\ vecs' = [vecs EXCEPT !["a"] = r.v]
             /\ last' = [last EXCEPT !.op = "Reserve", !.c = c, !.ex = r.ex,
                                      !.cap = GetCapacity(r.v)]
    /\ UNCHANGED copied

\* SimpleVector a(Reserve(c)); in place of the default-constructed a
FillReserveCtor(c) ==
    /\ last.op = "SimpleVector"
    /\ vecs["a"] = EmptyVector
    /\ vecs' = [vecs EXCEPT !["a"] = ReserveCtor(c)]
    /\ last' = [last EXCEPT !.op = "Reserve", !.c = c,
                             !.cap = GetCapacity(ReserveCtor(c))]
    /\ UNCHANGED copied

\* a.PushBack(item); with item an lvalue, while fewer than c were pushed
FillPushBack(item) ==
    /\ last.op \in {"Reserve", "PushBack"}
    /\ last.ex = "none"
    /\ Len(last.pushed) < last.c
    /\ \E ok \in BOOLEAN :
       \E g \in Indet(PushBackOverflows(vecs["a"])) :
          LET r == PushBack(vecs["a"], item, g, ok)
          IN /\ vecs' = [vecs EXCEPT !["a"] = r.v]
             /\ last' = [last EXCEPT
                            !.op = "PushBack", !.ex = r.ex,
                            !.pushed = IF r.ex = "none" THEN Append(@, item) ELSE @,
                            !.realloc = @ \/ PushBackGrows(vecs["a"])]
    /\ UNCHANGED copied

\* a.PushBack(std::move(item)); while fewer than c were pushed
FillPushBackMove(item) ==
    /\ last.op \in {"Reserve", "PushBack"}
    /\ last.ex = "none"
    /\ Len(last.pushed) < last.c
    /\ \E ok \in BOOLEAN :
       \E g \in Indet(PushBackOverflows(vecs["a"])) :
          LET r == PushBackMove(vecs["a"], item, g, ok)
          IN /\ vecs' = [vecs EXCEPT !["a"] = r.v]
             /\ last' = [last EXCEPT
                            !.op = "PushBack", !.ex = r.ex,
                            !.pushed = IF r.ex = "none" THEN Append(@, item) ELSE @,
                            !.realloc = @ \/ PushBackGrows(vecs["a"])]
    /\ UNCHANGED copied

\* a.Resize(m); with m below the number of values pushed
FillResize(m) ==
    /\ last.op \in {"Reserve", "PushBack"}
    /\ last.ex = "none"
    /\ m < Len(last.pushed)
    /\ \E ok \in BOOLEAN :
       \E g \in Indet(Torn(vecs["a"])) :
          LET r == Resize(vecs["a"], m, g, ok)
          IN /\ vecs' = [vecs EXCEPT !["a"] = r.v]
             /\ last' = [last EXCEPT !.op = "Resize", !.m = m, !.ex = r.ex]
    /\ UNCHANGED copied

\* a.Resize(m); once more
FillResizeAgain ==
    /\ last.op = "Resize"
    /\ last.ex = "none"
    /\ \E ok \in BOOLEAN :
       \E g \in Indet(Torn(vecs["a"])) :
          LET r == Resize(vecs["a"], last.m, g, ok)
          IN /\ vecs' = [vecs EXCEPT !["a"] = r.v]
             /\ last' = [last EXCEPT !.op = "Resize again", !.ex = r.ex,
                                      !.same = (r.v = vecs["a"])]
    /\ UNCHANGED copied

NextFill ==
    \/ \E c \in 0 .. MaxHeap : FillReserve(c)
    \/ \E c \in 0 .. MaxHeap : FillReserveCtor(c)
    \/ \E item \in Elem : FillPushBack(item)
    \/ \E item \in Elem : FillPushBackMove(item)
    \/ \E m \in 0 .. MaxHeap : FillResize(m)
    \/ FillResizeAgain

SpecFill == InitFill /\ [][NextFill]_vars

----------------------------------------------------------------------------
\* Properties.

PowerOfTwo(c) == \E e \in 0 .. MaxPush : c = 2 ^ e

\* C1: every vector has size <= capacity in every reachable state.
SizeWithinCapacity ==
    \A x \in Vecs : GetSize(vecs[x]) <= GetCapacity(vecs[x])

\* C2: after N PushBack calls on a default-constructed vector, and nothing
\* else, the size is N and the capacity is 0 when N = 0 and otherwise a power
\* of two that is >= N.
PushOnlyGrowth ==
    LET N == last.k
        vec == vecs["a"]
    IN /\ GetSize(vec) = N
       /\ N = 0 => GetCapacity(vec) = 0
       /\ N > 0 => PowerOfTwo(GetCapacity(vec)) /\ GetCapacity(vec) >= N

\* C2 witness: MaxPush - 1 calls have returned, the last one of the moving
\* overload, and the capacity has grown past the size.
PushOnlyGrowthWitness ==
    /\ last.op = "PushBack(move)"
    /\ last.k = MaxPush - 1
    /\ GetSize(vecs["a"]) = last.k
    /\ GetCapacity(vecs["a"]) > GetSize(vecs["a"])

\* C3: after copy construction of B from A, B has A's size, A's live elements
\* in order and A's capacity.
CopyKeepsCapacity ==
    (last.op = "SimpleVector(copy)") =>
        /\ GetSize(vecs[last.v]) = GetSize(vecs[last.src])
        /\ Live(vecs[last.v]) = Live(vecs[last.src])
        /\ GetCapacity(vecs[last.v]) = GetCapacity(vecs[last.src])

\* C4: once one vector is a copy of the other, a mutating call on either
\* leaves the size and the live elements of the other unchanged.
CopyIndependence ==
    [][(copied /\ last'.op \in MutatingCalls) =>
          LET y == Other(last'.v)
          IN /\ GetSize(vecs'[y]) = GetSize(vecs[y])
             /\ Live(vecs'[y]) = Live(vecs[y])]_vars

\* C5: a move construction or move assignment of B from a distinct A leaves A
\* with size 0 and capacity 0, and B with the size, capacity and live
\* elements A had.
MoveLeavesSourceEmpty ==
    [][(last'.op \in {"SimpleVector(move)", "operator=(move)"} /\ last'.v # last'.src) =>
          LET A == last'.src
              B == last'.v
          IN /\ GetSize(vecs'[A]) = 0
             /\ GetCapacity(vecs'[A]) = 0
             /\ GetSize(vecs'[B]) = GetSize(vecs[A])
             /\ GetCapacity(vecs'[B]) = GetCapacity(vecs[A])
             /\ Live(vecs'[B]) = Live(vecs[A])]_vars

\* C5 witness: a move assignment has handed over a vector with elements and
\* spare capacity.
MoveLeavesSourceEmptyWitness ==
    /\ last.op = "operator=(move)"
    /\ last.v # last.src
    /\ GetSize(vecs[last.v]) > 1
    /\ GetCapacity(vecs[last.v]) > GetSize(vecs[last.v])
    /\ GetSize(vecs[last.src]) = 0

\* C6: At(i) throws out_of_range exactly when i >= size, otherwise yields the
\* live element at position i, and leaves the vectors as they were.
AtChecked ==
    [][(last'.op = "At") =>
          /\ (last'.ex = "out_of_range") <=> (last'.k >= GetSize(vecs[last'.v]))
          /\ last'.ex = "none" => last'.ret = Live(vecs[last'.v])[last'.k + 1]
          /\ vecs' = vecs]_vars

\* C7: a call whose allocation fails leaves every vector with the size,
\* capacity and elements it had before the call.
AllocFailureLeavesUnchanged ==
    [][(last'.ex = "bad_alloc") => vecs' = vecs]_vars

\* C7 witness: PushBack on a full vector with elements has failed to allocate.
AllocFailureLeavesUnchangedWitness ==
    /\ last.op = "PushBack(move)"
    /\ last.ex = "bad_alloc"
    /\ GetSize(vecs[last.v]) = GetCapacity(vecs[last.v])
    /\ GetSize(vecs[last.v]) > 1

\* C8: Insert at any offset k <= size followed by Erase at the returned
\* position restores the size and the live elements.
InsertEraseInverse ==
    \A x \in Vecs : \A k \in 0 .. GetSize(vecs[x]) : \A value \in Elem :
    \A g1 \in Indet(Torn(vecs[x]) \/ InsertOverflows(vecs[x])) :
        LET ins == Insert(vecs[x], k, value, g1, TRUE).v
        IN \A g2 \in Indet(Torn(ins) \/ EraseOverflows(ins, k)) :
              LET ers == Erase(ins, k, g2)
              IN /\ GetSize(ers) = GetSize(vecs[x])
                 /\ Live(ers) = Live(vecs[x])

\* C9: Resize(n) truncates to n without touching the capacity or the first n
\* elements when n <= size; otherwise it keeps the capacity when n <= capacity
\* and makes it max(n, 2 * capacity) when not, keeps the old elements, makes
\* the elements from the old size up to n default values and sets the size
\* to n.
ResizeContract ==
    [][(last'.op = "Resize" /\ last'.ex = "none") =>
          LET old == vecs[last'.v]
              new == vecs'[last'.v]
              n == last'.k
          IN /\ GetSize(new) = n
             /\ GetCapacity(new) = IF n <= GetCapacity(old) \/ n <= GetSize(old)
                                    THEN GetCapacity(old)
                                    ELSE Max(n, 2 * GetCapacity(old))
             /\ \A i \in 1 .. n :
                   Live(new)[i] = IF i <= GetSize(old) THEN Live(old)[i] ELSE Default]_vars

\* C10: Reserve(c) keeps the size and the live elements; the capacity becomes
\* c when c > capacity and stays what it was when not.
ReserveContract ==
    [][(last'.op = "Reserve" /\ last'.ex = "none") =>
          LET old == vecs[last'.v]
              new == vecs'[last'.v]
              c == last'.k
          IN /\ GetSize(new) = GetSize(old)
             /\ Live(new) = Live(old)
             /\ GetCapacity(new) = IF c > GetCapacity(old) THEN c ELSE GetCapacity(old)
             /\ c <= GetCapacity(old) => new = old]_vars

\* The calls on one vector that change its size or capacity in place, and
\* those among them that only shrink the size.
SizingCalls == {"PushBack", "PushBack(move)", "Insert", "Insert(move)", "Erase",
                "PopBack", "Clear", "Resize", "Reserve"}
ShrinkingCalls == {"Erase", "PopBack", "Clear"}

\* C11: Clear, PopBack, Erase and a truncating Resize leave the capacity as
\* it was, and no PushBack, Insert, PopBack, Erase, Clear, Resize or Reserve
\* call makes the capacity of its vector smaller.
CapacityNeverShrinks ==
    [][(last'.op \in SizingCalls) =>
          LET old == vecs[last'.v]
              new == vecs'[last'.v]
          IN /\ GetCapacity(new) >= GetCapacity(old)
             /\ last'.op \in ShrinkingCalls => GetCapacity(new) = GetCapacity(old)
             /\ (last'.op = "Resize" /\ last'.ex = "none" /\ last'.k <= GetSize(old))
                    => GetCapacity(new) = GetCapacity(old)]_vars

\* C11 witness: Clear has emptied a vector that keeps more than one slot of
\* capacity.
CapacityNeverShrinksWitness ==
    /\ last.op = "Clear"
    /\ GetSize(vecs[last.v]) = 0
    /\ GetCapacity(vecs[last.v]) > 1

\* The calls that may enlarge the capacity without a target given by the
\* caller, and those that carry one.
UntargetedCalls == {"PushBack", "PushBack(move)", "Insert", "Insert(move)"}
TargetedCalls == {"Resize", "Reserve"}

\* C12 as stated: a call that enlarges the capacity makes it max(1, 2 * old
\* capacity), or the larger of that and the target of a Resize or Reserve.
GrowthDoublesOrTarget ==
    [][(last'.op \in UntargetedCalls \cup TargetedCalls
           /\ GetCapacity(vecs'[last'.v]) > GetCapacity(vecs[last'.v])) =>
          LET old == GetCapacity(vecs[last'.v])
              new == GetCapacity(vecs'[last'.v])
          IN new = IF last'.op \in TargetedCalls
                   THEN Max(last'.k, Max(1, 2 * old))
                   ELSE Max(1, 2 * old)]_vars

\* C12 amended: a PushBack or Insert that enlarges the capacity makes it
\* max(1, 2 * old capacity), so 1 from capacity 0; a Resize(n) that enlarges
\* it makes it max(n, 2 * old capacity); a Reserve(c) that enlarges it makes
\* it exactly c.
GrowthPolicy ==
    [][(last'.op \in UntargetedCalls \cup TargetedCalls
           /\ GetCapacity(vecs'[last'.v]) > GetCapacity(vecs[last'.v])) =>
          LET old == GetCapacity(vecs[last'.v])
              new == GetCapacity(vecs'[last'.v])
          IN /\ last'.op \in UntargetedCalls => new = Max(1, 2 * old)
             /\ last'.op = "Resize" => new = Max(last'.k, 2 * old)
             /\ last'.op = "Reserve" => new = last'.k]_vars

\* C12 witness: Reserve(3) has returned on a vector of two elements whose
\* capacity is now 3, which is not twice any capacity.
GrowthPolicyWitness ==
    /\ last.op = "Reserve"
    /\ last.k = 3
    /\ GetSize(vecs[last.v]) = 2
    /\ GetCapacity(vecs[last.v]) = 3
    /\ Slots(vecs[last.v]) = 3

\* The outcome of the other PushBack overload on vec.
OtherPushBack(op, vec, item, g, ok) ==
    IF op = "PushBack" THEN PushBackMove(vec, item, g, ok)
    ELSE PushBack(vec, item, g, ok)

\* C13: whenever either PushBack overload has been called, the other
\* overload called in the same state with the same value would have thrown
\* or returned alike and given the same size, capacity and live elements.
PushBackOverloadsAgree ==
    [][(last'.op \in {"PushBack", "PushBack(move)"}) =>
          \A g \in Elem :
             LET x == last'.v
                 o == OtherPushBack(last'.op, vecs[x], last'.item, g, last'.ex = "none")
             IN /\ o.ex = last'.ex
                /\ GetSize(o.v) = GetSize(vecs'[x])
                /\ GetCapacity(o.v) = GetCapacity(vecs'[x])
                /\ Live(o.v) = Live(vecs'[x])]_vars

\* C13 witness: PushBack(Type&&) has returned on a vector that was full with
\* two elements, not both default, and has doubled its capacity.
PushBackOverloadsAgreeWitness ==
    /\ last.op = "PushBack(move)"
    /\ last.ex = "none"
    /\ GetSize(vecs[last.v]) = 3
    /\ GetCapacity(vecs[last.v]) = 4
    /\ Live(vecs[last.v])[1] # Default

\* s is lexicographically less than t: at the first position where they
\* differ s has the smaller element, or s is a proper prefix of t.
LexLess(s, t) ==
    \E k \in 0 .. Len(s) :
        /\ k <= Len(t)
        /\ \A i \in 1 .. k : s[i] = t[i]
        /\ IF k = Len(s) THEN k < Len(t)
           ELSE k < Len(t) /\ s[k + 1] < t[k + 1]

\* C14: == is true exactly for vectors of the same size with equal live
\* elements, < is the lexicographic order of the live elements, != is the
\* negation of ==, <= of the reversed <, > is the reversed <, >= the
\* negation of <.
ComparisonsContract ==
    LET lhs == Live(vecs[last.v])
        rhs == Live(vecs[last.src])
        result == last.ret = 1
    IN /\ last.op = "operator==" => (result <=> lhs = rhs)
       /\ last.op = "operator!=" => (result <=> lhs # rhs)
       /\ last.op = "operator<" => (result <=> LexLess(lhs, rhs))
       /\ last.op = "operator<=" => (result <=> ~LexLess(rhs, lhs))
       /\ last.op = "operator>" => (result <=> LexLess(rhs, lhs))
       /\ last.op = "operator>=" => (result <=> ~LexLess(lhs, rhs))

\* C15: in the reserve-then-fill scenario Reserve(c) gives size 0 and a
\* capacity >= c; after k <= c PushBack calls the size is k, the capacity is
\* what it was after Reserve, no call has allocated and the live elements are
\* the values pushed; Resize(m) with m < k gives size m and the first m
\* values, with At throwing for the positions cut off; Resize(m) once more
\* leaves the vector as it was.
ReserveThenFill ==
    LET vec == vecs["a"]
        k == Len(last.pushed)
        Truncated == /\ GetSize(vec) = last.m
                     /\ GetCapacity(vec) = last.cap
                     /\ Live(vec) = SubSeq(last.pushed, 1, last.m)
                     /\ \A i \in last.m .. k - 1 : \A g \in Elem :
                            At(vec, i, g).ex = "out_of_range"
    IN /\ (last.op = "Reserve" /\ last.ex = "none") =>
              GetSize(vec) = 0 /\ GetCapacity(vec) >= last.c
       /\ last.op = "PushBack" =>
              /\ last.ex = "none"
              /\ GetSize(vec) = k
              /\ GetCapacity(vec) = last.cap
              /\ ~last.realloc
              /\ Live(vec) = last.pushed
       /\ last.op = "Resize" => last.ex = "none" /\ Truncated
       /\ last.op = "Resize again" => last.ex = "none" /\ Truncated /\ last.same

\* C15 witness: after Reserve(c), three PushBack calls with c > 3 and
\* Resize(1) twice.
ReserveThenFillWitness ==
    /\ last.op = "Resize again"
    /\ last.c > 3
    /\ Len(last.pushed) = 3
    /\ last.m = 1
    /\ GetSize(vecs["a"]) = 1

\* C16: a copy assignment a = b that returns gives a the size and the live
\* elements of b and leaves b as it was when a and b are distinct, and leaves
\* a as it was when they are the same vector.
CopyAssignContract ==
    [][(last'.op = "operator=" /\ last'.ex = "none") =>
          LET a == last'.v
              b == last'.src
          IN IF a = b THEN vecs' = vecs
             ELSE /\ GetSize(vecs'[a]) = GetSize(vecs[b])
                  /\ Live(vecs'[a]) = Live(vecs[b])
                  /\ vecs'[b] = vecs[b]]_vars

\* C17: an Insert of v at offset k that returns, by either overload, gives
\* the live elements before k, then v, then the live elements from k on,
\* makes the size one larger, makes the capacity max(1, 2 * capacity) when
\* the size was equal to the capacity and leaves it otherwise, and returns
\* the position at offset k.
InsertContract ==
    [][(last'.op \in {"Insert", "Insert(move)"} /\ last'.ex = "none") =>
          LET old == vecs[last'.v]
              new == vecs'[last'.v]
              k == last'.k
              s == Live(old)
          IN /\ Live(new) = SubSeq(s, 1, k) \o <<last'.item>> \o SubSeq(s, k + 1, Len(s))
             /\ GetSize(new) = GetSize(old) + 1
             /\ GetCapacity(new) = IF GetSize(old) = GetCapacity(old)
                                    THEN Max(1, 2 * GetCapacity(old))
                                    ELSE GetCapacity(old)
             /\ last'.ret = k]_vars

\* C18: an Erase at offset k gives the live elements before k followed by
\* those after k, makes the size one smaller, leaves the capacity as it was
\* and returns the position at offset k.
EraseContract ==
    [][(last'.op = "Erase") =>
          LET old == vecs[last'.v]
              new == vecs'[last'.v]
              k == last'.k
              s == Live(old)
          IN /\ Live(new) = SubSeq(s, 1, k) \o SubSeq(s, k + 2, Len(s))
             /\ GetSize(new) = GetSize(old) - 1
             /\ GetCapacity(new) = GetCapacity(old)
             /\ last'.ret = k]_vars

\* C19: no call that returns reads or writes a slot index that is not below
\* the number of slots the buffer it accesses holds.
MemorySafe ==
    [][(last'.ex = "none") =>
          ~AccessesOutside(last', vecs[last'.v], vecs[last'.src])]_vars

\* C20: in every reachable state the capacity of each vector is the number
\* of slots its buffer holds.
CapacityIsSlots ==
    \A x \in Vecs : GetCapacity(vecs[x]) = Slots(vecs[x])

====
